---- MODULE Spec2Model ----
(***************************************************************************)
(* Efficient decoupled detection head (yolov6/models/heads/                *)
(* effidehead_distill_ns.py): construction of Detect, its forward pass in  *)
(* training and in inference mode, and build_effidehead_layer.             *)
(*                                                                         *)
(* Tensors are records [shape, data]: data is the tensor's elements in     *)
(* logical row-major order, so reshape and flatten keep data and permute   *)
(* and cat move elements by index arithmetic.  Floating point values are   *)
(* fixed-point integers, FP standing for 1.0.                              *)
(***************************************************************************)
EXTENDS Integers, Sequences, FiniteSets, TLC

\* ------------------------------------------------------------------ bounds
MaxLayers == 4   \* num_layers ranges over 1..MaxLayers
MaxMaps == 3     \* the caller's list holds 1..MaxMaps feature maps
MaxDim == 2      \* a feature map's height and width range over 1..MaxDim
MaxBatch == 2    \* batch size ranges over 1..MaxBatch
MaxCalls == 2    \* forward calls made on one list object

\* fixed-point unit: the integer that stands for 1.0
FP == 1000

\* ----------------------------------------------------------------- tensors
RECURSIVE Prod(_)
Prod(s) == IF s = <<>> THEN 1 ELSE Head(s) * Prod(Tail(s))

\* the sequence f[lo], ..., f[hi] of a function f, built element by element
RECURSIVE Elements(_, _, _)
Elements(f, lo, hi) ==
    IF lo > hi THEN <<>>
    ELSE IF lo = hi THEN <<f[lo]>>
    ELSE LET mid == (lo + hi) \div 2
         IN  Elements(f, lo, mid) \o Elements(f, mid + 1, hi)

\* a tensor's data: n elements, element k given by f[k]
Data(n, f) == Elements(f, 1, n)

\* row-major strides of a shape
RowStrides(shape) ==
    [j \in 1..Len(shape) |-> Prod(SubSeq(shape, j + 1, Len(shape)))]

\* coordinate j of the element at 0-based flat position k
Coord(k, j, shape, st) == (k \div st[j]) % shape[j]

\* element of a rank-4 tensor at 0-based coordinates
At4(t, i0, i1, i2, i3) ==
    t.data[1 + ((i0 * t.shape[2] + i1) * t.shape[3] + i2) * t.shape[4] + i3]

\* element of a rank-3 tensor at 0-based coordinates
At3(t, i0, i1, i2) ==
    t.data[1 + (i0 * t.shape[2] + i1) * t.shape[3] + i2]

\* element of a rank-2 tensor at 0-based coordinates
At2(t, i0, i1) == t.data[1 + i0 * t.shape[2] + i1]

\* where the element at 0-based flat position k of a permuted tensor sits in
\* the tensor it was permuted from: the sum over the dimensions j.. of the
\* coordinate times the source's stride
RECURSIVE PermuteSource(_, _, _, _, _, _)
PermuteSource(k, j, oshape, ost, ist, dims) ==
    IF j > Len(oshape) THEN 0
    ELSE Coord(k, j, oshape, ost) * ist[dims[j] + 1]
           + PermuteSource(k, j + 1, oshape, ost, ist, dims)

\* Tensor.permute(*dims): output dimension j is input dimension dims[j]
permute(t, dims) ==
    LET n == Len(t.shape)
        oshape == [j \in 1..n |-> t.shape[dims[j] + 1]]
        ist == RowStrides(t.shape)
        ost == RowStrides(oshape)
    IN  [shape |-> oshape,
         data |-> Data(Len(t.data), [k \in 1..Len(t.data) |->
                     t.data[1 + PermuteSource(k - 1, 1, oshape, ost, ist, dims)]])]

\* Tensor.flatten(start_dim): dimensions start_dim.. collapse into one
flatten(t, start_dim) ==
    [shape |-> SubSeq(t.shape, 1, start_dim)
                 \o <<Prod(SubSeq(t.shape, start_dim + 1, Len(t.shape)))>>,
     data |-> t.data]

\* the shape a reshape resolves to: one entry may be -1
ReshapeTarget(t, shape) ==
    LET known == Prod([j \in 1..Len(shape) |->
                         IF shape[j] = -1 THEN 1 ELSE shape[j]])
    IN  [j \in 1..Len(shape) |->
           IF shape[j] = -1
           THEN (IF known = 0 THEN 0 ELSE Len(t.data) \div known)
           ELSE shape[j]]

\* Tensor.reshape raises unless the element counts agree
CanReshape(t, shape) == Prod(ReshapeTarget(t, shape)) = Len(t.data)

reshape(t, shape) == [shape |-> ReshapeTarget(t, shape), data |-> t.data]

\* torch.cat of two tensors along 0-based dimension dim
Cat2(a, b, dim) ==
    LET ia == Prod(SubSeq(a.shape, dim + 1, Len(a.shape)))
        ib == Prod(SubSeq(b.shape, dim + 1, Len(b.shape)))
    IN  [shape |-> [a.shape EXCEPT ![dim + 1] = a.shape[dim + 1] + b.shape[dim + 1]],
         data |-> Data((Len(a.data) + Len(b.data)), [k \in 1..(Len(a.data) + Len(b.data)) |->
                     LET o == (k - 1) \div (ia + ib)
                         rem == (k - 1) % (ia + ib)
                     IN  IF rem < ia THEN a.data[o * ia + rem + 1]
                         ELSE b.data[o * ib + (rem - ia) + 1]])]

\* torch.cat(list, dim) of a non-empty list
RECURSIVE cat(_, _)
cat(ts, dim) ==
    IF Len(ts) = 1 THEN ts[1]
    ELSE Cat2(cat(SubSeq(ts, 1, Len(ts) - 1), dim), ts[Len(ts)], dim)

\* t[start:end] along dimension 0, with Python's clamping of the bounds
slice0(t, start, end) ==
    LET n == t.shape[1]
        inner == Prod(Tail(t.shape))
        s == IF start > n THEN n ELSE start
        e == IF end > n THEN n ELSE end
        len == IF e > s THEN e - s ELSE 0
    IN  [shape |-> <<len>> \o Tail(t.shape),
         data |-> Data((len * inner), [k \in 1..(len * inner) |-> t.data[s * inner + k]])]

\* torch.sigmoid on whole-number logits, rounded to 1/FP
SigmoidPos(n) ==
    CASE n = 0 -> 500 [] n = 1 -> 731 [] n = 2 -> 881 [] n = 3 -> 953
      [] n = 4 -> 982 [] n = 5 -> 993 [] n = 6 -> 998 [] n = 7 -> 999
      [] OTHER -> 1000

sigmoidValue(v) ==
    LET n == IF v >= 0 THEN v \div FP ELSE (0 - v) \div FP
    IN  IF v >= 0 THEN SigmoidPos(n) ELSE FP - SigmoidPos(n)

sigmoid(t) ==
    [shape |-> t.shape, data |-> Data(Len(t.data), [k \in 1..Len(t.data) |-> sigmoidValue(t.data[k])])]

\* ----------------------------------------------------------------- modules
\* The injected feature transforms are pure tensor-to-tensor maps with a fixed
\* channel contract.  A module is [name, id, cin, cout, w]; id tells the modules
\* apart and w stands for the learned parameters.  Its output at (b, oc, r, c)
\* is w * (oc + id + the sum of the input's channels at (b, r, c)): height and
\* width are kept.
ModuleAccepts(m, t) == Len(t.shape) = 4 /\ t.shape[2] = m.cin

\* the sum of the input's channels ic.. at (bb, r, c)
RECURSIVE ChannelSum(_, _, _, _, _)
ChannelSum(t, bb, ic, r, c) ==
    IF ic >= t.shape[2] THEN 0
    ELSE At4(t, bb, ic, r, c) + ChannelSum(t, bb, ic + 1, r, c)

ModuleCall(m, t) ==
    LET b == t.shape[1]
        h == t.shape[3]
        w == t.shape[4]
        oshape == <<b, m.cout, h, w>>
        ost == RowStrides(oshape)
    IN  [shape |-> oshape,
         data |-> Data(Prod(oshape), [k \in 1..Prod(oshape) |->
                     LET bb == Coord(k - 1, 1, oshape, ost)
                         oc == Coord(k - 1, 2, oshape, ost)
                         r == Coord(k - 1, 3, oshape, ost)
                         c == Coord(k - 1, 4, oshape, ost)
                     IN  m.w * ((oc + m.id) * FP
                                + ChannelSum(t, bb, 0, r, c))])]

\* channels_list as the model builder passes it: entries 6, 8 and 10 are the
\* neck's output channels for the three scales
channels_list == [k \in 0..10 |-> IF k = 6 THEN 2 ELSE 1]

\* the six modules build_effidehead_layer makes for the scale whose channels
\* are channels_list[ci]
HeadGroup(ci, num_anchors, num_classes, reg_max, w) ==
    << [name |-> "stem", id |-> (ci - 6) \div 2 + 0, cin |-> channels_list[ci], cout |-> channels_list[ci], w |-> w],
       [name |-> "cls_conv", id |-> (ci - 6) \div 2 + 1, cin |-> channels_list[ci], cout |-> channels_list[ci], w |-> w],
       [name |-> "reg_conv", id |-> (ci - 6) \div 2 + 2, cin |-> channels_list[ci], cout |-> channels_list[ci], w |-> w],
       [name |-> "cls_pred", id |-> (ci - 6) \div 2 + 3, cin |-> channels_list[ci],
        cout |-> num_classes * num_anchors, w |-> w],
       [name |-> "reg_pred", id |-> (ci - 6) \div 2 + 4, cin |-> channels_list[ci],
        cout |-> 4 * (reg_max + num_anchors), w |-> w],
       [name |-> "reg_pred_1", id |-> (ci - 6) \div 2 + 5, cin |-> channels_list[ci],
        cout |-> 4 * num_anchors, w |-> w] >>

build_effidehead_layer(num_anchors, num_classes, reg_max, w) ==
    HeadGroup(6, num_anchors, num_classes, reg_max, w)
      \o HeadGroup(8, num_anchors, num_classes, reg_max, w)
      \o HeadGroup(10, num_anchors, num_classes, reg_max, w)

\* --------------------------------------------------------------- the state
VARIABLES
    det,              \* the Detect object, NoDetect before construction
    pc,               \* where the program is
    args,             \* the arguments of the running __init__ call
    x,                \* the caller's list of feature maps (one list object)
    x_in,             \* the maps the caller put in the list
    calls,            \* forward calls made on this list object
    i,                \* loop index of forward
    cls_score_list, reg_distri_list, reg_lrtb_list,
    anchor_points, stride_tensor, start_idx,
    slices,           \* per scale, what forward sliced out of the Anchor Set
    outputs,
    log,              \* the module calls of this pass: list, scale, argument, result
    ret               \* what forward returned

vars == <<det, pc, args, x, x_in, calls, i, cls_score_list, reg_distri_list,
          reg_lrtb_list, anchor_points, stride_tensor, start_idx, slices,
          outputs, log, ret>>

NoDetect == [constructed |-> FALSE]
NoArgs == [given |-> FALSE]
NoTensor == [shape |-> <<0>>, data |-> <<>>]
NoRet == [kind |-> "none"]

NumClasses == {1, 2}
NumAnchors == {1, 2}
RegMax == {1, 16}
Weights == {0, 1}
HeadLens == 0..18

\* locals of a pass, as they are before forward is entered
PassIdle ==
    /\ i = 0
    /\ cls_score_list = <<>> /\ reg_distri_list = <<>> /\ reg_lrtb_list = <<>>
    /\ anchor_points = NoTensor /\ stride_tensor = NoTensor /\ start_idx = 0
    /\ slices = <<>>
    /\ outputs = <<>>
    /\ log = <<>>

Init ==
    /\ det = NoDetect
    /\ pc = "new"
    /\ args = NoArgs
    /\ x = <<>> /\ x_in = <<>> /\ calls = 0
    /\ PassIdle
    /\ ret = NoRet

passVars == <<i, cls_score_list, reg_distri_list, reg_lrtb_list, anchor_points,
              stride_tensor, start_idx, slices, outputs, log>>

\* ------------------------------------------------------------ construction
\* A caller invokes Detect(num_classes, num_layers, head_layers=..., reg_max=...):
\* head_layers is None or a Sequential holding the first n modules of what
\* build_effidehead_layer returned.
CallInit(num_classes, num_layers, none, n, num_anchors, reg_max, w) ==
    /\ pc = "new"
    /\ pc' = "init"
    /\ args' = [given |-> TRUE,
                num_classes |-> num_classes,
                num_layers |-> num_layers,
                reg_max |-> reg_max,
                head_layers_is_None |-> none,
                head_layers |->
                    IF none THEN <<>>
                    ELSE SubSeq(build_effidehead_layer(num_anchors, num_classes,
                                                       reg_max, w), 1, n)]
    /\ UNCHANGED <<det, x, x_in, calls, passVars, ret>>

\* stride = [8, 16, 32]
StrideList == <<8, 16, 32>>

\* head_layers[idx] raises IndexError past the end
InitRaises(a) ==
    \/ a.head_layers_is_None
    \/ \E s \in 0..(a.num_layers - 1) : \E k \in 0..5 :
          s * 6 + k >= Len(a.head_layers)

\* the module list __init__ fills from head_layers[idx + k]
HeadList(a, k) == [s \in 1..a.num_layers |-> a.head_layers[(s - 1) * 6 + k + 1]]

DetectObject(a) ==
    [constructed |-> TRUE,
     training |-> TRUE,
     nc |-> a.num_classes,
     no |-> a.num_classes + 5,
     nl |-> a.num_layers,
     stride |-> StrideList,
     reg_max |-> a.reg_max,
     grid_cell_offset |-> FP \div 2,
     stems |-> HeadList(a, 0),
     cls_convs |-> HeadList(a, 1),
     reg_convs |-> HeadList(a, 2),
     cls_preds |-> HeadList(a, 3),
     reg_preds_dist |-> HeadList(a, 4),
     reg_preds |-> HeadList(a, 5)]

\* Detect.__init__
DetectInit ==
    /\ pc = "init"
    /\ IF InitRaises(args)
       THEN pc' = "init_error" /\ det' = det
       ELSE pc' = "idle" /\ det' = DetectObject(args)
    /\ args' = NoArgs
    /\ UNCHANGED <<x, x_in, calls, passVars, ret>>

\* model.train() / model.eval(): the mode is selected from outside
SetMode(training) ==
    /\ pc = "idle"
    /\ det.training # training
    /\ det' = [det EXCEPT !.training = training]
    /\ UNCHANGED <<pc, args, x, x_in, calls, passVars, ret>>

\* ------------------------------------------------------ external functions
\* one scale's anchor points, row-major: x = c + offset, y = r + offset
ScaleAnchors(h, w, offset) ==
    [shape |-> <<h * w, 2>>,
     data |-> Data((2 * h * w), [k \in 1..(2 * h * w) |->
                 LET cell == (k - 1) \div 2
                 IN  IF (k - 1) % 2 = 0 THEN (cell % w) * FP + offset
                     ELSE (cell \div w) * FP + offset])]

\* one scale's stride column
ScaleStrides(h, w, stride) ==
    [shape |-> <<h * w, 1>>, data |-> Data((h * w), [k \in 1..(h * w) |-> stride * FP])]

\* generate_anchors fails when the stride list and the feature maps differ in
\* number or a feature map has no spatial extent
GenerateAnchorsRaises(feats, fpn_strides) ==
    \/ Len(fpn_strides) # Len(feats)
    \/ \E j \in 1..Len(feats) : feats[j].shape[3] * feats[j].shape[4] = 0

\* generate_anchors(feats, fpn_strides, grid_cell_size, grid_cell_offset,
\*                  is_eval=True, mode='af'): (anchor_points, stride_tensor)
generate_anchors(feats, fpn_strides, grid_cell_offset) ==
    [anchor_points |->
        cat([j \in 1..Len(feats) |->
               ScaleAnchors(feats[j].shape[3], feats[j].shape[4], grid_cell_offset)], 0),
     stride_tensor |->
        cat([j \in 1..Len(feats) |->
               ScaleStrides(feats[j].shape[3], feats[j].shape[4], fpn_strides[j])], 0)]

\* the elementwise operators of two (rows, 2) tensors broadcast a single row
Broadcasts(n, m) == n = m \/ n = 1 \/ m = 1

BroadcastRows(n, m) == IF n = 1 THEN m ELSE n

\* dist2bbox(distance, anchor_points, box_format): distance is (N, 4) holding
\* (left, top, right, bottom), anchor_points is (M, 2)
dist2bbox(distance, points, box_format) ==
    LET n == distance.shape[1]
        m == points.shape[1]
        rows == BroadcastRows(n, m)
        A(q, j) == At2(points, IF m = 1 THEN 0 ELSE q, j)
        D(q, j) == At2(distance, IF n = 1 THEN 0 ELSE q, j)
        x1y1(q, j) == A(q, j) - D(q, j)
        x2y2(q, j) == A(q, j) + D(q, j + 2)
    IN  [shape |-> <<rows, 4>>,
         data |-> Data((4 * rows), [k \in 1..(4 * rows) |->
                     LET q == (k - 1) \div 4
                         j == (k - 1) % 4
                     IN  IF box_format = "xyxy"
                         THEN (IF j < 2 THEN x1y1(q, j) ELSE x2y2(q, j - 2))
                         ELSE (IF j < 2 THEN (x1y1(q, j) + x2y2(q, j)) \div 2
                               ELSE x2y2(q, j - 2) - x1y1(q, j - 2))])]

\* ----------------------------------------------------------------- forward
\* the feature map a caller passes for scale j (1-based): batch b, the neck's
\* channels for that scale (one channel for a map beyond the neck's three
\* scales), h x w cells holding whole numbers 0..4
InputMap(j, b, h, w) ==
    LET ci == 6 + 2 * (j - 1)
        c == IF ci \in DOMAIN channels_list THEN channels_list[ci] ELSE 1
    IN  [shape |-> <<b, c, h, w>>,
         data |-> Data((b * c * h * w), [k \in 1..(b * c * h * w) |-> FP * ((k - 1 + j) % 5)])]

\* pyramids: heights and widths do not grow from one scale to the next
Pyramids(n) ==
    {p \in [1..n -> (1..MaxDim) \X (1..MaxDim)] :
        \A j \in 1..(n - 1) : p[j + 1][1] <= p[j][1] /\ p[j + 1][2] <= p[j][2]}

\* one per-scale branch: the module calls in program order, each reading and
\* writing a local of forward
TrainBranch ==
    << [out |-> "x", list |-> "stems", in |-> "x"],
       [out |-> "cls_feat", list |-> "cls_convs", in |-> "x"],
       [out |-> "cls_output", list |-> "cls_preds", in |-> "cls_feat"],
       [out |-> "reg_feat", list |-> "reg_convs", in |-> "x"],
       [out |-> "reg_output", list |-> "reg_preds_dist", in |-> "reg_feat"],
       [out |-> "reg_output_lrtb", list |-> "reg_preds", in |-> "reg_feat"] >>

\* mutant: inference evaluates the distribution projection as training does
InferBranchWithDist ==
    << [out |-> "feat", list |-> "stems", in |-> "x"],
       [out |-> "cls_feat", list |-> "cls_convs", in |-> "feat"],
       [out |-> "reg_feat", list |-> "reg_convs", in |-> "feat"],
       [out |-> "cls_output", list |-> "cls_preds", in |-> "cls_feat"],
       [out |-> "reg_output_lrtb", list |-> "reg_preds_dist", in |-> "reg_feat"],
       [out |-> "reg_output", list |-> "reg_preds", in |-> "reg_feat"] >>

InferBranch ==
    << [out |-> "feat", list |-> "stems", in |-> "x"],
       [out |-> "cls_feat", list |-> "cls_convs", in |-> "feat"],
       [out |-> "reg_feat", list |-> "reg_convs", in |-> "feat"],
       [out |-> "cls_output", list |-> "cls_preds", in |-> "cls_feat"],
       [out |-> "reg_output", list |-> "reg_preds", in |-> "reg_feat"] >>

BranchEnv(xi) ==
    [ok |-> TRUE, calls |-> <<>>, x |-> xi, feat |-> NoTensor, cls_feat |-> NoTensor,
     reg_feat |-> NoTensor, cls_output |-> NoTensor, reg_output |-> NoTensor,
     reg_output_lrtb |-> NoTensor]

\* run a branch for scale s (1-based): a module given a tensor whose channels
\* it does not expect raises
RECURSIVE RunBranch(_, _, _)
RunBranch(prog, s, env) ==
    IF prog = <<>> \/ ~env.ok THEN env
    ELSE LET ins == Head(prog)
             m == det[ins.list][s]
             arg == env[ins.in]
         IN  IF ~ModuleAccepts(m, arg) THEN [env EXCEPT !.ok = FALSE]
             ELSE LET res == ModuleCall(m, arg)
                  IN  RunBranch(Tail(prog), s,
                                [env EXCEPT ![ins.out] = res,
                                            !.calls = Append(@, [list |-> ins.list, s |-> s,
                                                                 arg |-> arg, res |-> res])])

\* mutant: the layout is changed with a reshape instead of a permute
AnchorMajorByReshape(t) ==
    reshape(flatten(t, 2), <<t.shape[1], t.shape[3] * t.shape[4], t.shape[2]>>)

\* x.flatten(2).permute((0, 2, 1)): (batch, channels, h, w) to
\* (batch, h * w, channels)
AnchorMajor(t) == permute(flatten(t, 2), <<0, 2, 1>>)

\* torch.cat(list, axis=1) of the per-scale tensors
ConcatScales(ts) == cat(ts, 1)

\* mutant: the index advances by the rows of the map, not by its cells
EndIdxRows(start, h, w) == start + h

\* end_idx = start_idx + h * w
EndIdx(start, h, w) == start + h * w

\* mutant: every scale is multiplied by the first stride of the Anchor Set
ApplyFirstStride(pred_bboxes, scale_stride) ==
    [shape |-> pred_bboxes.shape,
     data |-> Data(Len(pred_bboxes.data),
                   [k \in 1..Len(pred_bboxes.data) |->
                      (pred_bboxes.data[k] * stride_tensor.data[1]) \div FP])]

\* pred_bboxes *= scale_stride[0]
ApplyStride(pred_bboxes, scale_stride) ==
    [shape |-> pred_bboxes.shape,
     data |-> Data(Len(pred_bboxes.data),
                   [k \in 1..Len(pred_bboxes.data) |->
                      (pred_bboxes.data[k] * scale_stride.data[1]) \div FP])]

\* mutant: the confidences come before the objectness placeholder
ScaleOutputConfFirst(pred_bboxes, ones, cls_output) ==
    cat(<<pred_bboxes, cls_output, ones>>, 3)

\* torch.cat([pred_bboxes, ones, cls_output], dim=-1)
ScaleOutput(pred_bboxes, ones, cls_output) == cat(<<pred_bboxes, ones, cls_output>>, 3)

\* the caller passes a fresh list of feature maps to forward
Forward(n, b, p) ==
    /\ pc = "idle"
    /\ x = <<>>
    /\ x' = [j \in 1..n |-> InputMap(j, b, p[j][1], p[j][2])]
    /\ x_in' = x'
    /\ calls' = 1
    /\ pc' = IF det.training THEN "train" ELSE "anchors"
    /\ UNCHANGED <<det, args, passVars, ret>>

\* the caller passes the same list object to forward once more
ForwardAgain ==
    /\ pc = "idle"
    /\ x # <<>>
    /\ calls < MaxCalls
    /\ calls' = calls + 1
    /\ pc' = IF det.training THEN "train" ELSE "anchors"
    /\ UNCHANGED <<det, args, x, x_in, passVars, ret>>

\* the caller lets go of its list
Drop ==
    /\ pc = "idle"
    /\ x # <<>>
    /\ x' = <<>> /\ x_in' = <<>> /\ calls' = 0
    /\ UNCHANGED <<det, pc, args, passVars, ret>>

\* training mode: one iteration of the loop over the scales
TrainIter ==
    /\ pc = "train"
    /\ i < det.nl
    /\ \E env \in {IF i + 1 > Len(x) THEN [ok |-> FALSE]
                   ELSE RunBranch(TrainBranch, i + 1, BranchEnv(x[i + 1]))} :
          IF ~env.ok
          THEN /\ pc' = "error"
               /\ ret' = [kind |-> "raised"]
               /\ x' = IF i + 1 > Len(x) THEN x ELSE [x EXCEPT ![i + 1] = env.x]
               /\ UNCHANGED <<i, cls_score_list, reg_distri_list, reg_lrtb_list, log>>
          ELSE /\ x' = [x EXCEPT ![i + 1] = env.x]
               /\ cls_score_list' =
                    Append(cls_score_list,
                           AnchorMajor(sigmoid(env.cls_output)))
               /\ reg_distri_list' =
                    Append(reg_distri_list,
                           AnchorMajor(env.reg_output))
               /\ reg_lrtb_list' =
                    Append(reg_lrtb_list,
                           AnchorMajor(env.reg_output_lrtb))
               /\ log' = log \o env.calls
               /\ i' = i + 1
               /\ UNCHANGED <<pc, ret>>
    /\ UNCHANGED <<det, args, x_in, calls, anchor_points, stride_tensor, start_idx,
                   slices, outputs>>

\* training mode: concatenate along the anchor axis and return
TrainReturn ==
    /\ pc = "train"
    /\ i = det.nl
    /\ ret' = [kind |-> "train",
               x |-> x,
               cls_score_list |-> ConcatScales(cls_score_list),
               reg_distri_list |-> ConcatScales(reg_distri_list),
               reg_lrtb_list |-> ConcatScales(reg_lrtb_list)]
    /\ pc' = "done"
    /\ UNCHANGED <<det, args, x, x_in, calls, passVars>>

\* inference mode: the Anchor Set of all scales, then start_idx = 0
InferAnchors ==
    /\ pc = "anchors"
    /\ IF GenerateAnchorsRaises(x, det.stride)
       THEN /\ pc' = "error"
            /\ ret' = [kind |-> "raised"]
            /\ UNCHANGED <<anchor_points, stride_tensor>>
       ELSE \E g \in {generate_anchors(x, det.stride, det.grid_cell_offset)} :
                /\ anchor_points' = g.anchor_points
                /\ stride_tensor' = g.stride_tensor
                /\ pc' = "infer"
                /\ ret' = ret
    /\ start_idx' = 0
    /\ UNCHANGED <<det, args, x, x_in, calls, i, cls_score_list, reg_distri_list,
                   reg_lrtb_list, slices, outputs, log>>

\* what one inference iteration computes for scale s (1-based) after the
\* branch has run: the locals of lines 118-156, and whether a step raises
InferLocals(s, env) ==
    LET b == x[s].shape[1]
        h == x[s].shape[3]
        w == x[s].shape[4]
        cls_output == permute(sigmoid(env.cls_output), <<0, 2, 3, 1>>)
        reg_output == permute(env.reg_output, <<0, 2, 3, 1>>)
        end_idx == EndIdx(start_idx, h, w)
        scale_anchor_points == slice0(anchor_points, start_idx, end_idx)
        scale_stride == slice0(stride_tensor, start_idx, end_idx)
        distance == reshape(reg_output, <<-1, 4>>)
        decoded == dist2bbox(distance, scale_anchor_points, "xywh")
        pred_bboxes == reshape(decoded, <<b, h, w, 4>>)
        scaled == ApplyStride(pred_bboxes, scale_stride)
        ones == [shape |-> <<b, h, w, 1>>,
                 data |-> Data(b * h * w, [k \in 1..(b * h * w) |-> FP])]
        raises == \/ ~CanReshape(reg_output, <<-1, 4>>)
                  \/ ~Broadcasts(distance.shape[1], scale_anchor_points.shape[1])
                  \/ ~CanReshape(decoded, <<b, h, w, 4>>)
                  \/ scale_stride.shape[1] = 0
    IN  IF ~env.ok THEN [raises |-> TRUE]
        ELSE IF raises THEN [raises |-> TRUE]
        ELSE [raises |-> FALSE,
              end_idx |-> end_idx,
              scale_anchor_points |-> scale_anchor_points,
              scale_stride |-> scale_stride,
              scale_output |-> ScaleOutput(scaled, ones, cls_output)]

\* inference mode: one iteration of the loop over the scales
InferIter ==
    /\ pc = "infer"
    /\ i < det.nl
    /\ \E env \in {IF i + 1 > Len(x) THEN [ok |-> FALSE, calls |-> <<>>]
                   ELSE RunBranch(InferBranch, i + 1, BranchEnv(x[i + 1]))} :
       \E loc \in {InferLocals(i + 1, env)} :
          IF loc.raises
          THEN /\ pc' = "error"
               /\ ret' = [kind |-> "raised"]
               /\ log' = log \o env.calls
               /\ UNCHANGED <<i, start_idx, slices, outputs>>
          ELSE /\ outputs' = Append(outputs, loc.scale_output)
               /\ slices' = Append(slices, [start |-> start_idx,
                                            scale_anchor_points |-> loc.scale_anchor_points,
                                            scale_stride |-> loc.scale_stride])
               /\ start_idx' = loc.end_idx
               /\ log' = log \o env.calls
               /\ i' = i + 1
               /\ UNCHANGED <<pc, ret>>
    /\ UNCHANGED <<det, args, x, x_in, calls, cls_score_list, reg_distri_list,
                   reg_lrtb_list, anchor_points, stride_tensor>>

\* inference mode: return the list of per-scale outputs
InferReturn ==
    /\ pc = "infer"
    /\ i = det.nl
    /\ ret' = [kind |-> "infer", outputs |-> outputs]
    /\ pc' = "done"
    /\ UNCHANGED <<det, args, x, x_in, calls, passVars>>

\* the caller has the result (or the exception); the locals of the pass are gone
Return ==
    /\ pc \in {"done", "error"}
    /\ pc' = "idle"
    /\ ret' = NoRet
    /\ i' = 0
    /\ cls_score_list' = <<>> /\ reg_distri_list' = <<>> /\ reg_lrtb_list' = <<>>
    /\ anchor_points' = NoTensor /\ stride_tensor' = NoTensor /\ start_idx' = 0
    /\ slices' = <<>>
    /\ outputs' = <<>>
    /\ log' = <<>>
    /\ UNCHANGED <<det, args, x, x_in, calls>>

\* a caller constructs a head: every argument combination
Construct ==
    /\ pc = "new"
    /\ \E num_classes \in NumClasses, num_layers \in 1..MaxLayers,
          none \in BOOLEAN, n \in HeadLens, num_anchors \in NumAnchors,
          reg_max \in RegMax, w \in Weights :
          CallInit(num_classes, num_layers, none, n, num_anchors, reg_max, w)

\* a caller calls forward on a fresh list: every list
CallForward ==
    /\ pc = "idle"
    /\ x = <<>>
    /\ \E n \in 1..MaxMaps, b \in 1..MaxBatch : \E p \in Pyramids(n) : Forward(n, b, p)

Next ==
    \/ Construct
    \/ DetectInit
    \/ \E training \in BOOLEAN : SetMode(training)
    \/ CallForward
    \/ ForwardAgain
    \/ Drop
    \/ TrainIter
    \/ TrainReturn
    \/ InferAnchors
    \/ InferIter
    \/ InferReturn
    \/ Return

Spec == Init /\ [][Next]_vars

\* ------------------------------------------------------------------ claims
\* cells of the first n feature maps of a list
RECURSIVE PrefixCells(_, _)
PrefixCells(maps, n) ==
    IF n = 0 THEN 0
    ELSE PrefixCells(maps, n - 1) + maps[n].shape[3] * maps[n].shape[4]

\* the calls this pass made to module list l for scale s (1-based)
CallsTo(l, s) == {q \in 1..Len(log) : log[q].list = l /\ log[q].s = s}

\* the call this pass made to module list l for scale s
TheCall(l, s) == log[CHOOSE q \in CallsTo(l, s) : TRUE]

TrainingDone == pc = "done" /\ ret.kind = "train"
InferenceDone == pc = "done" /\ ret.kind = "infer"

\* C1: a Detect object never exists with a number of stride values other than
\* its number of scales nl: such a construction fails.
C1_StrideCountIsNl == det.constructed => Len(det.stride) = det.nl

\* C2: __init__ given a head_layers that does not hold exactly 6 * num_layers
\* modules (too short or too long) ends in an error.
C2_RejectsWrongLength ==
    [][(pc = "init" /\ ~args.head_layers_is_None
          /\ Len(args.head_layers) # 6 * args.num_layers)
       => pc' = "init_error"]_vars

\* C6: forward leaves the caller's list as the caller filled it, in every
\* mode and at every point of a pass.
C6_InputListUntouched == x = x_in

\* C7: a training pass returns a classification tensor of depth num_classes,
\* a distribution-form regression tensor of depth 4 * (reg_max + 1) and a
\* direct regression tensor of depth 4, whatever num_anchors and reg_max the
\* head's layers were built with.
C7_TrainDepths ==
    TrainingDone =>
        /\ ret.cls_score_list.shape[3] = det.nc
        /\ ret.reg_distri_list.shape[3] = 4 * (det.reg_max + 1)
        /\ ret.reg_lrtb_list.shape[3] = 4

\* C3: one scale, stride 8, one class, reg_max 16, inference, one 2x2 map, all
\* logits and regression outputs zero: the pass completes and returns one
\* 2x2 record whose cell (r, c) holds the box ((c + 0.5) * 8, (r + 0.5) * 8,
\* 0, 0), objectness 1.0 and confidence 0.5.
C3_Scenario ==
    /\ det.constructed /\ ~det.training
    /\ det.nl = 1 /\ det.nc = 1 /\ det.reg_max = 16 /\ det.stride[1] = 8
    /\ det.cls_preds[1].w = 0 /\ det.reg_preds[1].w = 0
    /\ det.cls_preds[1].cout = 1 /\ det.reg_preds[1].cout = 4
    /\ Len(x_in) = 1 /\ x_in[1].shape[3] = 2 /\ x_in[1].shape[4] = 2

C3_Expected ==
    /\ pc = "done" /\ ret.kind = "infer" /\ Len(ret.outputs) = 1
    /\ LET o == ret.outputs[1]
           b == x_in[1].shape[1]
       IN  /\ o.shape = <<b, 2, 2, 6>>
           /\ \A bb \in 0..(b - 1), r \in 0..1, c \in 0..1 :
                /\ At4(o, bb, r, c, 0) = (c * FP + FP \div 2) * 8
                /\ At4(o, bb, r, c, 1) = (r * FP + FP \div 2) * 8
                /\ At4(o, bb, r, c, 2) = 0
                /\ At4(o, bb, r, c, 3) = 0
                /\ At4(o, bb, r, c, 4) = FP
                /\ At4(o, bb, r, c, 5) = FP \div 2

C3_ZeroScenario == (C3_Scenario /\ pc \in {"done", "error"}) => C3_Expected

\* one concatenated training output T against the per-scale outputs of module
\* list l: (batch, total anchors, channels), and the entry at anchor index
\* (cells of the scales before s) + r * w + c is scale s's output at (r, c)
ScaleMajorRowMajor(T, l, act(_)) ==
    LET b == x_in[1].shape[1]
    IN  /\ Len(T.shape) = 3
        /\ T.shape[1] = b
        /\ T.shape[2] = PrefixCells(x_in, det.nl)
        /\ \A s \in 1..det.nl :
             LET R == TheCall(l, s).res
                 h == x_in[s].shape[3]
                 w == x_in[s].shape[4]
             IN  /\ T.shape[3] = R.shape[2]
                 /\ \A bb \in 0..(b - 1), r \in 0..(h - 1), c \in 0..(w - 1),
                       ch \in 0..(R.shape[2] - 1) :
                       At3(T, bb, PrefixCells(x_in, s - 1) + r * w + c, ch)
                         = act(At4(R, bb, ch, r, c))

Same(v) == v

\* C4: in training mode each of the three concatenated outputs has
\* sum_i(h_i * w_i) entries along the anchor axis, and the entry at index
\* (sum_{j<i} h_j * w_j) + r * w_i + c is scale i's prediction at (r, c).
C4_TrainOutputsScaleMajor ==
    TrainingDone =>
        /\ ScaleMajorRowMajor(ret.cls_score_list, "cls_preds", sigmoidValue)
        /\ ScaleMajorRowMajor(ret.reg_distri_list, "reg_preds_dist", Same)
        /\ ScaleMajorRowMajor(ret.reg_lrtb_list, "reg_preds", Same)

C4_Witness ==
    /\ TrainingDone
    /\ det.nl = 3 /\ det.stems[1].w = 1
    /\ x_in[1].shape = <<2, 2, 2, 2>> /\ x_in[2].shape = <<2, 1, 1, 2>>
    /\ ret.reg_lrtb_list.shape[2] = 7

InferencePass == pc = "infer" \/ InferenceDone

C8_BoxIsStridedDecode ==
    InferencePass =>
        \A s \in 1..Len(outputs) :
            LET o == outputs[s]
                R == TheCall("reg_preds", s).res
                b == x_in[s].shape[1]
                h == x_in[s].shape[3]
                w == x_in[s].shape[4]
                st == det.stride[s]
            IN  \A bb \in 0..(b - 1), r \in 0..(h - 1), c \in 0..(w - 1) :
                    LET left == At4(R, bb, 0, r, c)
                        top == At4(R, bb, 1, r, c)
                        right == At4(R, bb, 2, r, c)
                        bottom == At4(R, bb, 3, r, c)
                        xa == c * FP + FP \div 2
                        ya == r * FP + FP \div 2
                    IN  /\ At4(o, bb, r, c, 0) = (xa + (right - left) \div 2) * st
                        /\ At4(o, bb, r, c, 1) = (ya + (bottom - top) \div 2) * st
                        /\ At4(o, bb, r, c, 2) = (left + right) * st
                        /\ At4(o, bb, r, c, 3) = (top + bottom) * st

C8_Witness ==
    /\ InferenceDone
    /\ det.nl = 3 /\ det.reg_preds[1].w = 1
    /\ Len(outputs) = 3
    /\ x_in[1].shape[3] = 2 /\ x_in[1].shape[4] = 2 /\ x_in[2].shape[4] = 2
    /\ At4(outputs[2], 0, 0, 1, 0) # At4(outputs[1], 0, 0, 1, 0)

\* C9: a completed inference pass returns nl records in scale order, record i
\* of shape (batch, h_i, w_i, 4 + 1 + num_classes) holding 4 box values, then
\* objectness 1.0, then the num_classes confidences of feature map i.
C9_Records ==
    InferenceDone =>
        /\ Len(ret.outputs) = det.nl
        /\ \A s \in 1..det.nl :
             LET o == ret.outputs[s]
                 logits == TheCall("cls_preds", s).res
                 b == x_in[s].shape[1]
                 h == x_in[s].shape[3]
                 w == x_in[s].shape[4]
             IN  /\ o.shape = <<b, h, w, 4 + 1 + det.nc>>
                 /\ \A bb \in 0..(b - 1), r \in 0..(h - 1), c \in 0..(w - 1) :
                      /\ At4(o, bb, r, c, 4) = FP
                      /\ \A k \in 0..(det.nc - 1) :
                           At4(o, bb, r, c, 5 + k) = sigmoidValue(At4(logits, bb, k, r, c))

C9_Witness ==
    /\ InferenceDone
    /\ det.nl = 3 /\ det.nc = 2 /\ det.cls_preds[1].w = 1
    /\ Len(ret.outputs) = 3
    /\ ret.outputs[1].shape = <<1, 2, 1, 7>>

\* C10: in one pass each scale's stem is called once and its result is the
\* argument of both the classification and the regression feature transform;
\* the distribution projection is called once per scale in training and never
\* in inference; the classification and the direct regression projection are
\* called once per scale in both modes.
C10_CallsPerScale ==
    pc = "done" =>
        \A s \in 1..det.nl :
            /\ Cardinality(CallsTo("stems", s)) = 1
            /\ Cardinality(CallsTo("cls_convs", s)) = 1
            /\ Cardinality(CallsTo("reg_convs", s)) = 1
            /\ TheCall("cls_convs", s).arg = TheCall("stems", s).res
            /\ TheCall("reg_convs", s).arg = TheCall("stems", s).res
            /\ Cardinality(CallsTo("reg_preds_dist", s)) = (IF ret.kind = "train" THEN 1 ELSE 0)
            /\ Cardinality(CallsTo("cls_preds", s)) = 1
            /\ Cardinality(CallsTo("reg_preds", s)) = 1

C10_Witness ==
    /\ pc = "done" /\ ret.kind = "train"
    /\ det.nl = 2 /\ det.stems[1].w = 1
    /\ Len(log) = 12
    /\ calls = 2

====
